---- MODULE Spec2Model ----
(***************************************************************************)
(* CheatGuardian: the signal analysis and alerting engine.                 *)
(*                                                                         *)
(*   detectionUtils  (src/unnamed/part_001, lines 23-294)                   *)
(*       processVideoFrame, getDetectionStatus and the module-level        *)
(*       recentHeadPositions / framesSinceFaceDetected                     *)
(*   audioUtils      (src/unnamed/part_002, lines 238-347)                  *)
(*       initializeAudio, stopAudio, processAudio, recentNoiseLevel        *)
(*   Index           (src/src/pages/Index.tsx)                              *)
(*       the React component: its state, the detection-loop effect with    *)
(*       the detectFrame closure, toggleAudio, toggleDetection,            *)
(*       dismissAlert                                                      *)
(*                                                                         *)
(* Times are milliseconds (Date.now()).  Coordinates are pixels; the       *)
(* detector's boxes are drawn from even integers so that the halving in    *)
(* the centroid is exact.  A volume sample is kept as the byte average of  *)
(* the frequency snapshot (0..255); the normalised volume is that / 255.   *)
(***************************************************************************)
EXTENDS Integers, Sequences, FiniteSets, TLC

(***************************************************************************)
(* Program constants                                                       *)
(***************************************************************************)
MAX_HEAD_POSITIONS == 15
HEAD_MOVEMENT_THRESHOLD == 25
FREQUENT_MOVEMENTS_THRESHOLD == 3
POSITION_TRACKING_INTERVAL == 300
FACE_DISAPPEARANCE_THRESHOLD == 3
MAX_NOISE_SAMPLES == 20
ALERT_COOLDOWN == 10000
MaxFaces == 3

(***************************************************************************)
(* Bounds of the model                                                     *)
(***************************************************************************)
MaxFrames == 4          \* cap of framesSinceFaceDetected
MaxClock == 0           \* horizon of the clock of the detection loop, in cooldowns
MaxTrackSteps == 5      \* horizon of the clock of the tracker runs, in 301 ms
MaxTicks == 3           \* detectFrame invocations that reach the detector
MaxNoiseTicks == 8      \* the same, in the runs with sound
MaxInFlight == 2        \* detectFrame invocations awaiting the detector
MaxAlerts == 3          \* length of the alert log
MaxPendingInit == 1     \* initializeAudio calls awaiting the permission
MaxAudioSamples == 7    \* processAudio calls of the runs of the analyzer alone
MaxWindowSteps == 16    \* horizon of the clock of the window runs, in 301 ms
MaxWindowSamples == 22  \* processAudio calls of the window runs
MaxDriverTicks == 3     \* detectFrame invocations of the runs of the driver
MaxDriverClock == 1     \* horizon of the clock of those runs, in cooldowns

(***************************************************************************)
(* Status messages                                                         *)
(***************************************************************************)
MsgNoFace == "No face detected in frame"
MsgLookingAway == "Looking away from screen frequently"
MsgTemporarily == "Face temporarily not visible"
MsgNormal == "Normal exam behavior"
MsgAudioStatus == "Suspicious audio detected"
MsgAudioAlert == "Suspicious sounds detected"
MsgStarting == "Starting detection..."

\* `Multiple faces detected (${faceCount})`
MsgMultiple(n) == "Multiple faces detected (" \o ToString(n) \o ")"


(***************************************************************************)
(* State                                                                   *)
(***************************************************************************)
VARIABLES
    now,                     \* Date.now(), ms
    \* detectionUtils (module level)
    faceDetectionModel,      \* TRUE when the cached model is not null
    recentHeadPositions,     \* sequence of [x, y, timestamp], oldest first
    framesSinceFaceDetected,
    \* audioUtils (module level)
    analyzer,                \* TRUE when analyzer is not null
    audioStream,             \* TRUE when audioStream is not null
    liveStreams,             \* microphone streams acquired and not stopped
    recentNoiseLevel,        \* sequence of byte averages, oldest first
    \* Index: refs
    videoRef,                \* TRUE when videoRef.current is not null
    \* Index: React state
    loadModel,               \* position of the loadModel effect
    isDetecting,
    isModelLoaded,
    results,                 \* facePresent, faceCount, lookingAway, estimatedAttention
    audioResults,            \* noiseDetected / volumeLevel as last returned by processAudio
    detectionStatus,
    statusMessage,
    audioEnabled,
    noiseDetected,
    alerts,                  \* sequence of [id, message, type, timestamp], newest first
    \* Index: the detection-loop effect
    effectDeps,              \* dependency values of the last run of the effect
    inflight,                \* closures of the detectFrame calls awaiting processVideoFrame
    raf,                     \* pending requestAnimationFrame callbacks
    pendingInit,             \* initializeAudio calls awaiting getUserMedia
    \* observation of the run
    tick,                    \* locals of the last completed operation
    ticks,                   \* number of processVideoFrame calls made by detectFrame
    dismissed                \* message and timestamp of the alerts removed by dismissAlert

vars == <<now, faceDetectionModel, recentHeadPositions, framesSinceFaceDetected,
          analyzer, audioStream, liveStreams, recentNoiseLevel, videoRef,
          loadModel, isDetecting, isModelLoaded, results, audioResults,
          detectionStatus, statusMessage, audioEnabled, noiseDetected, alerts,
          effectDeps, inflight, raf, pendingInit, tick, ticks, dismissed>>

(***************************************************************************)
(* detectionUtils                                                          *)
(***************************************************************************)
\* A bounding box of the detector: corners as <<x, y>>.
Box(x1, y1, x2, y2) == [topLeft |-> <<x1, y1>>, bottomRight |-> <<x2, y2>>]

\* DefaultResult that keeps the attention at its initial 100.
DefaultResult_FullAttention ==
    [faceCount |-> 0, facePresent |-> FALSE, lookingAway |-> FALSE,
     estimatedAttention |-> 100, predictions |-> "null"]

\* The result returned when there is no model / video element, or on a throw.
DefaultResult ==
    [faceCount |-> 0, facePresent |-> FALSE, lookingAway |-> FALSE,
     estimatedAttention |-> 0, predictions |-> "null"]

\* centerX / centerY of the first face (index 0 of the corner is x, 1 is y).
centerX(firstFace) ==
    firstFace.topLeft[1] + (firstFace.bottomRight[1] - firstFace.topLeft[1]) \div 2

centerY(firstFace) ==
    firstFace.topLeft[2] + (firstFace.bottomRight[1] - firstFace.topLeft[2]) \div 2

\* The debounce letting a sample through once the interval has passed exactly.
ShouldRecord_AtLeast(positions, currentTime) ==
    \/ Len(positions) = 0
    \/ currentTime - positions[Len(positions)].timestamp >= POSITION_TRACKING_INTERVAL

\* The debounce: a sample is recorded when the window is empty or more than
\* POSITION_TRACKING_INTERVAL has passed since the last recorded sample.
ShouldRecord(positions, currentTime) ==
    \/ Len(positions) = 0
    \/ currentTime - positions[Len(positions)].timestamp > POSITION_TRACKING_INTERVAL

\* push, then shift when the length exceeds MAX_HEAD_POSITIONS.
PushPosition(positions, sample) ==
    LET pushed == Append(positions, sample)
    IN  IF Len(pushed) > MAX_HEAD_POSITIONS THEN Tail(pushed) ELSE pushed

\* IsSignificant counting a distance equal to the threshold.
IsSignificant_AtLeast(prev, curr) ==
    (curr.x - prev.x) * (curr.x - prev.x) + (curr.y - prev.y) * (curr.y - prev.y)
        >= HEAD_MOVEMENT_THRESHOLD * HEAD_MOVEMENT_THRESHOLD

\* distance > HEAD_MOVEMENT_THRESHOLD, on the squares (sqrt is monotone).
IsSignificant(prev, curr) ==
    (curr.x - prev.x) * (curr.x - prev.x) + (curr.y - prev.y) * (curr.y - prev.y)
        > HEAD_MOVEMENT_THRESHOLD * HEAD_MOVEMENT_THRESHOLD

\* The loop over consecutive pairs of the window.
SignificantMovements(positions) ==
    Cardinality({i \in 2..Len(positions) : IsSignificant(positions[i - 1], positions[i])})

\* Attention with each movement taking 25 points instead of 20.
Attention_Step25(significantMovements) ==
    IF significantMovements > 0
    THEN (IF 100 - significantMovements * 25 > 0 THEN 100 - significantMovements * 25 ELSE 0)
    ELSE 100

\* estimatedAttention after the movement count (starts at 100).
Attention(significantMovements) ==
    IF significantMovements > 0
    THEN (IF 100 - significantMovements * 20 > 0 THEN 100 - significantMovements * 20 ELSE 0)
    ELSE 100

\* CountFrames without the reset on a detected face.
CountFrames_NoReset(frames, fp) == IF ~fp THEN frames + 1 ELSE frames

\* framesSinceFaceDetected after a detection with the given facePresent.
CountFrames(frames, fp) == IF ~fp THEN frames + 1 ELSE 0

\* lookingAway that needs more than FREQUENT_MOVEMENTS_THRESHOLD movements.
LookingAway_MoreThan(significantMovements) ==
    significantMovements > FREQUENT_MOVEMENTS_THRESHOLD

\* lookingAway after the movement count.
LookingAway(significantMovements) ==
    significantMovements >= FREQUENT_MOVEMENTS_THRESHOLD

\* processVideoFrame once the detector has settled.  outcome.throws: the
\* detector (either pass) threw; outcome.faces: the predictions otherwise.
\* Yields the new module state, the local significantMovements (0 when the
\* loop over the window did not run) and the returned result.
processVideoFrame(videoElement, outcome, currentTime) ==
    IF ~videoElement \/ ~faceDetectionModel \/ outcome.throws
    THEN [positions |-> recentHeadPositions,
          frames |-> framesSinceFaceDetected,
          movements |-> 0,
          result |-> DefaultResult]
    ELSE
      LET predictions == outcome.faces
          fc == Len(predictions)
          fp == fc > 0
          frames == CountFrames(framesSinceFaceDetected, fp)
      IN  IF fp
          THEN IF ShouldRecord(recentHeadPositions, currentTime)
               THEN LET firstFace == predictions[1]
                        positions == PushPosition(recentHeadPositions,
                                        [x |-> centerX(firstFace),
                                         y |-> centerY(firstFace),
                                         timestamp |-> currentTime])
                        significantMovements == SignificantMovements(positions)
                    IN  [positions |-> positions,
                         frames |-> frames,
                         movements |-> IF Len(positions) > 1
                                       THEN significantMovements ELSE 0,
                         result |->
                           [faceCount |-> fc, facePresent |-> fp,
                            lookingAway |->
                               Len(positions) > 1 /\ LookingAway(significantMovements),
                            estimatedAttention |->
                               IF Len(positions) > 1
                               THEN Attention(significantMovements) ELSE 100,
                            predictions |-> "list"]]
               ELSE [positions |-> recentHeadPositions,
                     frames |-> frames,
                     movements |-> 0,
                     result |-> [faceCount |-> fc, facePresent |-> fp,
                                 lookingAway |-> FALSE, estimatedAttention |-> 100,
                                 predictions |-> "list"]]
          ELSE [positions |-> recentHeadPositions,
                frames |-> frames,
                movements |-> 0,
                result |-> [faceCount |-> fc, facePresent |-> fp,
                            lookingAway |-> FALSE, estimatedAttention |-> 0,
                            predictions |-> "list"]]

\* getDetectionStatus with the looking-away rule tested before the face count.
getDetectionStatus_GazeFirst(fp, fc, la, frames) ==
    IF ~fp /\ frames >= FACE_DISAPPEARANCE_THRESHOLD
    THEN [status |-> "danger", message |-> MsgNoFace]
    ELSE IF la
    THEN [status |-> "warning", message |-> MsgLookingAway]
    ELSE IF fc > 1
    THEN [status |-> "danger", message |-> MsgMultiple(fc)]
    ELSE IF ~fp /\ frames > 0
    THEN [status |-> "warning", message |-> MsgTemporarily]
    ELSE [status |-> "safe", message |-> MsgNormal]

\* getDetectionStatus; frames is the module's framesSinceFaceDetected at the call.
getDetectionStatus(fp, fc, la, frames) ==
    IF ~fp /\ frames >= FACE_DISAPPEARANCE_THRESHOLD
    THEN [status |-> "danger", message |-> MsgNoFace]
    ELSE IF fc > 1
    THEN [status |-> "danger", message |-> MsgMultiple(fc)]
    ELSE IF la
    THEN [status |-> "warning", message |-> MsgLookingAway]
    ELSE IF ~fp /\ frames > 0
    THEN [status |-> "warning", message |-> MsgTemporarily]
    ELSE [status |-> "safe", message |-> MsgNormal]


(***************************************************************************)
(* audioUtils                                                              *)
(***************************************************************************)
RECURSIVE SumSeq(_)
SumSeq(q) == IF q = <<>> THEN 0 ELSE Head(q) + SumSeq(Tail(q))

RECURSIVE SumSquares(_)
SumSquares(q) == IF q = <<>> THEN 0 ELSE Head(q) * Head(q) + SumSquares(Tail(q))

\* PushNoise that refuses the new sample when the window is full.
PushNoise_DropNewest(levels, sample) ==
    LET pushed == Append(levels, sample)
    IN  IF Len(pushed) > MAX_NOISE_SAMPLES THEN levels ELSE pushed

\* push, then shift when the length exceeds MAX_NOISE_SAMPLES.
PushNoise(levels, sample) ==
    LET pushed == Append(levels, sample)
    IN  IF Len(pushed) > MAX_NOISE_SAMPLES THEN Tail(pushed) ELSE pushed

\* Variance with the divisor n - 1 of the sample variance.
Variance_Unbiased(levels) ==
    LET n == Len(levels)
        S == SumSeq(levels)
    IN  [num |-> n * SumSquares(levels) - S * S, den |-> 255 * 255 * n * (n - 1)]

\* Population variance of the normalised samples b/255, as the fraction num/den:
\*   mean = S/(255 n),  variance = (n * SumSquares - S * S) / (255 * 255 * n * n).
Variance(levels) ==
    LET n == Len(levels)
        S == SumSeq(levels)
    IN  [num |-> n * SumSquares(levels) - S * S, den |-> 255 * 255 * n * n]

\* variance > NOISE_THRESHOLD (0.2 = 1/5)
AboveNoiseThreshold(variance) == 5 * variance.num > variance.den

\* normalizedVolume > 0.1, for the byte average b
AboveVolumeFloor(b) == 10 * b > 255

NoAudioResult ==
    [noiseDetected |-> FALSE, noiseLevel |-> [num |-> 0, den |-> 1], volumeLevel |-> 0]

\* processAudio for a frequency snapshot whose byte average is b.
\* Yields the new window and the returned result.
processAudio(b) ==
    IF ~analyzer
    THEN [levels |-> recentNoiseLevel, result |-> NoAudioResult]
    ELSE LET levels == PushNoise(recentNoiseLevel, b)
         IN  [levels |-> levels,
              result |->
                IF Len(levels) > 5
                THEN [noiseDetected |-> AboveNoiseThreshold(Variance(levels))
                                        /\ AboveVolumeFloor(b),
                      noiseLevel |-> Variance(levels),
                      volumeLevel |-> b]
                ELSE [noiseDetected |-> FALSE,
                      noiseLevel |-> [num |-> 0, den |-> 1],
                      volumeLevel |-> b]]

(***************************************************************************)
(* Index: the state after the first render                                 *)
(***************************************************************************)
\* The values the detection-loop effect depends on (its dependency array).
Deps == [isDetecting |-> isDetecting, isModelLoaded |-> isModelLoaded,
         audioEnabled |-> audioEnabled, noiseDetected |-> noiseDetected,
         alerts |-> alerts]

NoStatus == [status |-> "safe", message |-> MsgStarting]

\* tick: what the last completed tick computed.  op: the operation; video: the
\* value of getDetectionStatus; published: the status set by detectFrame;
\* audioEnabled, noiseDetected: as seen by the tick's closure; audioActive: the
\* audioEnabled state when the tick published; recorded: a position sample
\* was pushed; audioNoise: noiseDetected of the tick's processAudio result
\* (FALSE when the tick did not call it); emitted: alerts added by the tick;
\* run: the consecutive ticks, this one included, on which the detector
\* reported zero faces since a tick with a face (-1 when no such tick precedes
\* an unbroken run); threw: the detector threw on this tick; initFailed: the
\* last initializeAudio call to settle returned false; face: predictions[0]
\* of the tick (NoFace when there is none); movements: the tick's local
\* significantMovements; resumed: this processAudio is the first call after
\* a successful initializeAudio.
NoFace == Box(0, 0, 0, 0)

NoTick == [op |-> "none", video |-> NoStatus, published |-> NoStatus,
           audioEnabled |-> FALSE, noiseDetected |-> FALSE, audioActive |-> FALSE,
           recorded |-> FALSE, audioNoise |-> FALSE, emitted |-> 0, run |-> -1,
           threw |-> FALSE, initFailed |-> FALSE,
           face |-> NoFace, movements |-> 0, resumed |-> FALSE]

\* predictions[0] after a detector outcome.
PrimaryFace(outcome) ==
    IF outcome.throws \/ Len(outcome.faces) = 0 THEN NoFace ELSE outcome.faces[1]

\* The run of absences after a tick whose detector gave this outcome.
AbsenceRun(outcome) ==
    IF outcome.throws THEN -1
    ELSE IF Len(outcome.faces) > 0 THEN 0
    ELSE IF tick.run >= 0 THEN tick.run + 1 ELSE -1

Init ==
    /\ now = 0
    /\ faceDetectionModel = FALSE
    /\ recentHeadPositions = <<>>
    /\ framesSinceFaceDetected = 0
    /\ analyzer = FALSE
    /\ audioStream = FALSE
    /\ liveStreams = 0
    /\ recentNoiseLevel = <<>>
    /\ videoRef = FALSE
    /\ loadModel = "loading"
    /\ isDetecting = FALSE
    /\ isModelLoaded = FALSE
    /\ results = [faceCount |-> 0, facePresent |-> FALSE, lookingAway |-> FALSE,
                  estimatedAttention |-> 100, predictions |-> "null"]
    /\ audioResults = NoAudioResult
    /\ detectionStatus = "safe"
    /\ statusMessage = MsgStarting
    /\ audioEnabled = FALSE
    /\ noiseDetected = FALSE
    /\ alerts = <<>>
    /\ effectDeps = Deps
    /\ inflight = <<>>
    /\ raf = <<>>
    /\ pendingInit = 0
    /\ tick = NoTick
    /\ ticks = 0
    /\ dismissed = {}

(***************************************************************************)
(* getDetectionStatus as a function of its inputs                          *)
(***************************************************************************)
InitStatus ==
    /\ now = 0
    /\ faceDetectionModel = FALSE
    /\ recentHeadPositions = <<>>
    /\ framesSinceFaceDetected \in 0..MaxFrames
    /\ analyzer = FALSE
    /\ audioStream = FALSE
    /\ liveStreams = 0
    /\ recentNoiseLevel = <<>>
    /\ videoRef = FALSE
    /\ loadModel = "loading"
    /\ isDetecting = FALSE
    /\ isModelLoaded = FALSE
    /\ results \in [faceCount : 0..MaxFaces, facePresent : BOOLEAN,
                    lookingAway : BOOLEAN, estimatedAttention : {100},
                    predictions : {"list"}]
    /\ audioResults = NoAudioResult
    /\ detectionStatus = "safe"
    /\ statusMessage = MsgStarting
    /\ audioEnabled = FALSE
    /\ noiseDetected = FALSE
    /\ alerts = <<>>
    /\ effectDeps = Deps
    /\ inflight = <<>>
    /\ raf = <<>>
    /\ pendingInit = 0
    /\ tick = [NoTick EXCEPT !.op = "input"]
    /\ ticks = 0
    /\ dismissed = {}

CallGetDetectionStatus ==
    /\ tick.op = "input"
    /\ tick' = [tick EXCEPT
                  !.op = "getDetectionStatus",
                  !.video = getDetectionStatus(results.facePresent, results.faceCount,
                                               results.lookingAway, framesSinceFaceDetected)]
    /\ UNCHANGED <<now, faceDetectionModel, recentHeadPositions, framesSinceFaceDetected,
                   analyzer, audioStream, liveStreams, recentNoiseLevel, videoRef,
                   loadModel, isDetecting, isModelLoaded, results, audioResults,
                   detectionStatus, statusMessage, audioEnabled, noiseDetected, alerts,
                   effectDeps, inflight, raf, pendingInit, ticks, dismissed>>

NextStatus == CallGetDetectionStatus

SpecStatus == InitStatus /\ [][NextStatus]_vars

\* C1: getDetectionStatus returns the result of the first matching rule, in the
\* order no-face-for-3-frames (danger), multiple faces (danger), looking away
\* (warning), face temporarily missing (warning), otherwise safe; rule 1 beats
\* rule 3 and rule 2 beats rule 3.
C1_Rule1 == ~results.facePresent /\ framesSinceFaceDetected >= 3
C1_Rule2 == results.faceCount > 1
C1_Rule3 == results.lookingAway
C1_Rule4 == ~results.facePresent /\ framesSinceFaceDetected > 0

C1_FirstMatchingRule ==
    tick.op = "getDetectionStatus" =>
      /\ C1_Rule1 =>
            tick.video = [status |-> "danger", message |-> "No face detected in frame"]
      /\ ~C1_Rule1 /\ C1_Rule2 =>
            /\ tick.video.status = "danger"
            /\ results.faceCount = 2 => tick.video.message = "Multiple faces detected (2)"
            /\ results.faceCount = 3 => tick.video.message = "Multiple faces detected (3)"
      /\ ~C1_Rule1 /\ ~C1_Rule2 /\ C1_Rule3 =>
            tick.video = [status |-> "warning",
                          message |-> "Looking away from screen frequently"]
      /\ ~C1_Rule1 /\ ~C1_Rule2 /\ ~C1_Rule3 /\ C1_Rule4 =>
            tick.video = [status |-> "warning", message |-> "Face temporarily not visible"]
      /\ ~C1_Rule1 /\ ~C1_Rule2 /\ ~C1_Rule3 /\ ~C1_Rule4 =>
            tick.video = [status |-> "safe", message |-> "Normal exam behavior"]

\* Rules 1 and 3 hold together and the result is the no-face danger.
C1_Witness ==
    /\ tick.op = "getDetectionStatus"
    /\ C1_Rule1 /\ C1_Rule3
    /\ tick.video.status = "danger"


(***************************************************************************)
(* Index: the detection loop                                               *)
(*                                                                         *)
(* detectFrame is a closure of the render in which the effect ran: it sees *)
(* isDetecting, isModelLoaded, audioEnabled, noiseDetected and alerts as   *)
(* they were then.  A closure that passes the test of line 103 has         *)
(* isDetecting and isModelLoaded true, so a closure is kept as             *)
(* [audioEnabled, noiseDetected, alerts].                                  *)
(*                                                                         *)
(* requestAnimationFrame ids matter only through the pending callback that *)
(* animationRef.current names: raf holds the pending callbacks, and the    *)
(* one whose id is in animationRef.current has current = TRUE.             *)
(*                                                                         *)
(* An update made in a click handler is rendered, and its effects run,     *)
(* before the handler's event ends; an update made after an await is       *)
(* rendered later, and the effect then runs as a step of its own           *)
(* (FlushEffect).                                                          *)
(***************************************************************************)
Closure(deps) == [audioEnabled |-> deps.audioEnabled,
                  noiseDetected |-> deps.noiseDetected,
                  alerts |-> deps.alerts]

RemoveAt(q, i) == [j \in 1..(Len(q) - 1) |-> IF j < i THEN q[j] ELSE q[j + 1]]

\* cancelAnimationFrame(animationRef.current)
CancelCurrent(callbacks) == SelectSeq(callbacks, LAMBDA e : ~e.current)

\* animationRef.current = requestAnimationFrame(detectFrame), detectFrame of closure c
Schedule(callbacks, c) ==
    Append([j \in 1..Len(callbacks) |-> [callbacks[j] EXCEPT !.current = FALSE]],
           [closure |-> c, current |-> TRUE])

\* The closure's `alerts.some(alert => alert.message === message &&
\*     now - alert.timestamp < 10000)`
HasRecentAlert(log, message, t) ==
    \E i \in 1..Len(log) :
        log[i].message = message /\ t - log[i].timestamp < ALERT_COOLDOWN

\* { id: `alert-${Date.now()}`, message, type, timestamp: new Date() }
NewAlert(message, type, t) ==
    [id |-> t, message |-> message, type |-> type, timestamp |-> t]

\* Prepend that adds the new alerts at the end of the log.
Prepend_AtEnd(added, prev) == prev \o added

\* Prepend that drops the alerts whose cooldown has expired.
Prepend_DropExpired(added, prev) ==
    added \o SelectSeq(prev, LAMBDA a : now - a.timestamp < ALERT_COOLDOWN)

\* setAlerts(prev => [alert, ...prev]), for the alerts added by one tick.
Prepend(added, prev) == added \o prev

\* The audio overlay of lines 149-155, for the closure c.
OverallStatus(c, video) ==
    IF c.audioEnabled /\ c.noiseDetected /\ video.status = "safe"
    THEN [status |-> "warning", message |-> MsgAudioStatus]
    ELSE video

\* The effect of lines 101-208 for the dependency values deps: the cleanup of
\* the previous run, then the body.  detectFrame() returns at line 103 when
\* there is no video element; otherwise it calls processVideoFrame and awaits.
RunEffect(deps, limit) ==
    /\ effectDeps' = deps
    /\ raf' = CancelCurrent(raf)
    /\ IF deps.isDetecting /\ deps.isModelLoaded /\ videoRef
       THEN /\ Len(inflight) < MaxInFlight
            /\ ticks < limit
            /\ inflight' = Append(inflight, Closure(deps))
            /\ ticks' = ticks + 1
       ELSE UNCHANGED <<inflight, ticks>>

\* The effect after an update made outside an event handler.
FlushEffect(limit) ==
    /\ Deps # effectDeps
    /\ RunEffect(Deps, limit)
    /\ UNCHANGED tick
    /\ UNCHANGED <<now, faceDetectionModel, recentHeadPositions, framesSinceFaceDetected,
                   analyzer, audioStream, liveStreams, recentNoiseLevel, videoRef,
                   loadModel, isDetecting, isModelLoaded, results, audioResults,
                   detectionStatus, statusMessage, audioEnabled, noiseDetected, alerts,
                   pendingInit, dismissed>>

\* A pending animation-frame callback runs: detectFrame up to the await.
AnimationFrame(i, limit) ==
    /\ i \in 1..Len(raf)
    /\ raf' = RemoveAt(raf, i)
    /\ IF videoRef
       THEN /\ Len(inflight) < MaxInFlight
            /\ ticks < limit
            /\ inflight' = Append(inflight, raf[i].closure)
            /\ ticks' = ticks + 1
       ELSE UNCHANGED <<inflight, ticks>>
    /\ UNCHANGED tick
    /\ UNCHANGED <<now, faceDetectionModel, recentHeadPositions, framesSinceFaceDetected,
                   analyzer, audioStream, liveStreams, recentNoiseLevel, videoRef,
                   loadModel, isDetecting, isModelLoaded, results, audioResults,
                   detectionStatus, statusMessage, audioEnabled, noiseDetected, alerts,
                   effectDeps, pendingInit, dismissed>>

\* The detector settles for the awaiting detectFrame i: the rest of
\* processVideoFrame, then lines 109-194 of detectFrame.  b is the byte
\* average of the frequency snapshot read by processAudio.
DetectorSettles(i, outcome, b) ==
    /\ i \in 1..Len(inflight)
    /\ LET c == inflight[i]
           video == processVideoFrame(videoRef, outcome, now)
           audio == IF c.audioEnabled THEN processAudio(b)
                    ELSE [levels |-> recentNoiseLevel, result |-> audioResults]
           audioAlert ==
              IF c.audioEnabled /\ audio.result.noiseDetected
                 /\ ~HasRecentAlert(c.alerts, MsgAudioAlert, now)
              THEN <<NewAlert(MsgAudioAlert, "warning", now)>> ELSE <<>>
           videoStatus == getDetectionStatus(video.result.facePresent,
                               video.result.faceCount, video.result.lookingAway,
                               video.frames)
           status == OverallStatus(c, videoStatus)
           statusAlert ==
              IF status.status \in {"danger", "warning"}
                 /\ ~HasRecentAlert(c.alerts, status.message, now)
              THEN <<NewAlert(status.message, status.status, now)>> ELSE <<>>
       IN  /\ video.frames <= MaxFrames
           /\ Len(statusAlert) + Len(audioAlert) + Len(alerts) <= MaxAlerts
           /\ recentHeadPositions' = video.positions
           /\ framesSinceFaceDetected' = video.frames
           /\ results' = video.result
           /\ recentNoiseLevel' = audio.levels
           /\ audioResults' = audio.result
           /\ noiseDetected' = IF c.audioEnabled THEN audio.result.noiseDetected
                               ELSE noiseDetected
           /\ detectionStatus' = status.status
           /\ statusMessage' = status.message
           /\ alerts' = Prepend(statusAlert \o audioAlert, alerts)
           /\ raf' = Schedule(raf, c)
           /\ inflight' = RemoveAt(inflight, i)
           /\ tick' = [op |-> "detectFrame", video |-> videoStatus, published |-> status,
                       audioEnabled |-> c.audioEnabled, noiseDetected |-> c.noiseDetected,
                       audioActive |-> audioEnabled,
                       recorded |-> video.positions # recentHeadPositions,
                       audioNoise |-> c.audioEnabled /\ audio.result.noiseDetected,
                       emitted |-> Len(statusAlert) + Len(audioAlert),
                       run |-> AbsenceRun(outcome),
                       threw |-> outcome.throws,
                       initFailed |-> tick.initFailed,
                       face |-> PrimaryFace(outcome),
                       movements |-> video.movements,
                       resumed |-> FALSE]
    /\ UNCHANGED <<now, faceDetectionModel, analyzer, audioStream, liveStreams, videoRef,
                   loadModel, isDetecting, isModelLoaded, audioEnabled, effectDeps,
                   pendingInit, ticks, dismissed>>


(***************************************************************************)
(* Index: handlers                                                         *)
(***************************************************************************)
\* stopAudio that leaves the analyzer connected.
stopAudio_KeepsAnalyzer ==
    [audioStream |-> FALSE,
     liveStreams |-> IF audioStream THEN liveStreams - 1 ELSE liveStreams,
     analyzer |-> analyzer]

\* stopAudio: the module state after it.
stopAudio ==
    [audioStream |-> FALSE,
     liveStreams |-> IF audioStream THEN liveStreams - 1 ELSE liveStreams,
     analyzer |-> FALSE]

\* loadModel: initializeDetection settles.
LoadModelSettles(ok) ==
    /\ loadModel = "loading"
    /\ loadModel' = IF ok THEN "loaded" ELSE "failed"
    /\ faceDetectionModel' = ok
    /\ isModelLoaded' = ok
    /\ UNCHANGED tick
    /\ UNCHANGED <<now, recentHeadPositions, framesSinceFaceDetected,
                   analyzer, audioStream, liveStreams, recentNoiseLevel, videoRef,
                   isDetecting, results, audioResults,
                   detectionStatus, statusMessage, audioEnabled, noiseDetected, alerts,
                   effectDeps, inflight, raf, pendingInit, ticks, dismissed>>

\* handleVideoElement(element), called by WebcamFeed once the camera delivers.
handleVideoElement ==
    /\ ~videoRef
    /\ videoRef' = TRUE
    /\ UNCHANGED tick
    /\ UNCHANGED <<now, faceDetectionModel, recentHeadPositions, framesSinceFaceDetected,
                   analyzer, audioStream, liveStreams, recentNoiseLevel,
                   loadModel, isDetecting, isModelLoaded, results, audioResults,
                   detectionStatus, statusMessage, audioEnabled, noiseDetected, alerts,
                   effectDeps, inflight, raf, pendingInit, ticks, dismissed>>

\* toggleDetection (a click) before the model is loaded: the toast of lines
\* 217-223 and the early return; no state of the component changes.
toggleDetectionNotLoaded ==
    /\ ~isModelLoaded
    /\ tick' = [tick EXCEPT !.op = "toggleDetection"]
    /\ UNCHANGED <<now, faceDetectionModel, recentHeadPositions, framesSinceFaceDetected,
                   analyzer, audioStream, liveStreams, recentNoiseLevel, videoRef,
                   loadModel, isDetecting, isModelLoaded, results, audioResults,
                   detectionStatus, statusMessage, audioEnabled, noiseDetected, alerts,
                   effectDeps, inflight, raf, pendingInit, ticks, dismissed>>

\* toggleDetectionStart without the test of isModelLoaded.
toggleDetectionStart_Unguarded(limit) ==
    /\ ~isDetecting
    /\ Deps = effectDeps
    /\ isDetecting' = TRUE
    /\ RunEffect([Deps EXCEPT !.isDetecting = TRUE], limit)
    /\ UNCHANGED tick
    /\ UNCHANGED <<now, faceDetectionModel, recentHeadPositions, framesSinceFaceDetected,
                   analyzer, audioStream, liveStreams, audioEnabled,
                   recentNoiseLevel, videoRef, loadModel, isModelLoaded, results,
                   audioResults, detectionStatus, statusMessage, noiseDetected, alerts,
                   pendingInit, dismissed>>

\* toggleDetectionStart that also resets the module state of the tracker.
toggleDetectionStart_ResetsTracker(limit) ==
    /\ isModelLoaded
    /\ ~isDetecting
    /\ Deps = effectDeps
    /\ isDetecting' = TRUE
    /\ recentHeadPositions' = <<>>
    /\ framesSinceFaceDetected' = 0
    /\ RunEffect([Deps EXCEPT !.isDetecting = TRUE], limit)
    /\ UNCHANGED tick
    /\ UNCHANGED <<now, faceDetectionModel,
                   analyzer, audioStream, liveStreams, audioEnabled,
                   recentNoiseLevel, videoRef, loadModel, isModelLoaded, results,
                   audioResults, detectionStatus, statusMessage, noiseDetected, alerts,
                   pendingInit, dismissed>>

\* toggleDetection (a click) while not detecting: monitoring starts.
toggleDetectionStart(limit) ==
    /\ isModelLoaded
    /\ ~isDetecting
    /\ Deps = effectDeps
    /\ isDetecting' = TRUE
    /\ RunEffect([Deps EXCEPT !.isDetecting = TRUE], limit)
    /\ UNCHANGED tick
    /\ UNCHANGED <<now, faceDetectionModel, recentHeadPositions, framesSinceFaceDetected,
                   analyzer, audioStream, liveStreams, audioEnabled,
                   recentNoiseLevel, videoRef, loadModel, isModelLoaded, results,
                   audioResults, detectionStatus, statusMessage, noiseDetected, alerts,
                   pendingInit, dismissed>>

\* toggleDetection (a click) while detecting: monitoring stops, and audio
\* monitoring with it when it is enabled.
toggleDetectionStop(limit) ==
    /\ isModelLoaded
    /\ isDetecting
    /\ Deps = effectDeps
    /\ isDetecting' = FALSE
    /\ IF audioEnabled
       THEN /\ audioStream' = stopAudio.audioStream
            /\ liveStreams' = stopAudio.liveStreams
            /\ analyzer' = stopAudio.analyzer
            /\ audioEnabled' = FALSE
       ELSE UNCHANGED <<audioStream, liveStreams, analyzer, audioEnabled>>
    /\ RunEffect([Deps EXCEPT !.isDetecting = FALSE, !.audioEnabled = FALSE], limit)
    /\ UNCHANGED tick
    /\ UNCHANGED <<now, faceDetectionModel, recentHeadPositions, framesSinceFaceDetected,
                   recentNoiseLevel, videoRef, loadModel, isModelLoaded, results,
                   audioResults, detectionStatus, statusMessage, noiseDetected, alerts,
                   pendingInit, dismissed>>

\* toggleAudio (a click on the button shown while detecting), audio enabled.
toggleAudioOff(limit) ==
    /\ isDetecting
    /\ audioEnabled
    /\ Deps = effectDeps
    /\ audioStream' = stopAudio.audioStream
    /\ liveStreams' = stopAudio.liveStreams
    /\ analyzer' = stopAudio.analyzer
    /\ audioEnabled' = FALSE
    /\ RunEffect([Deps EXCEPT !.audioEnabled = FALSE], limit)
    /\ UNCHANGED tick
    /\ UNCHANGED <<now, faceDetectionModel, recentHeadPositions, framesSinceFaceDetected,
                   recentNoiseLevel, videoRef, loadModel, isDetecting, isModelLoaded,
                   results, audioResults, detectionStatus, statusMessage, noiseDetected,
                   alerts, pendingInit, dismissed>>

\* toggleAudio, audio not enabled: initializeAudio up to the await of getUserMedia.
toggleAudioOn(limit) ==
    /\ isDetecting
    /\ ~audioEnabled
    /\ Deps = effectDeps
    /\ pendingInit < limit
    /\ pendingInit' = pendingInit + 1
    /\ UNCHANGED tick
    /\ UNCHANGED <<now, faceDetectionModel, recentHeadPositions, framesSinceFaceDetected,
                   analyzer, audioStream, liveStreams, recentNoiseLevel, videoRef,
                   loadModel, isDetecting, isModelLoaded, results, audioResults,
                   detectionStatus, statusMessage, audioEnabled, noiseDetected, alerts,
                   effectDeps, inflight, raf, ticks, dismissed>>

\* getUserMedia settles: the rest of initializeAudio, then setAudioEnabled.
InitializeAudioSettles(granted) ==
    /\ pendingInit > 0
    /\ pendingInit' = pendingInit - 1
    /\ IF granted
       THEN /\ audioStream' = TRUE
            /\ liveStreams' = liveStreams + 1
            /\ analyzer' = TRUE
       ELSE UNCHANGED <<audioStream, liveStreams, analyzer>>
    /\ audioEnabled' = granted
    /\ tick' = [tick EXCEPT !.initFailed = ~granted]
    /\ UNCHANGED <<now, faceDetectionModel, recentHeadPositions, framesSinceFaceDetected,
                   recentNoiseLevel, videoRef,
                   loadModel, isDetecting, isModelLoaded, results, audioResults,
                   detectionStatus, statusMessage, noiseDetected, alerts,
                   effectDeps, inflight, raf, ticks, dismissed>>

\* dismissAlert(id) (a click on an alert of the log).
dismissAlert(id, limit) ==
    /\ \E i \in 1..Len(alerts) : alerts[i].id = id
    /\ Deps = effectDeps
    /\ alerts' = SelectSeq(alerts, LAMBDA a : a.id # id)
    /\ dismissed' = dismissed \cup
          {[message |-> alerts[i].message, timestamp |-> alerts[i].timestamp] :
              i \in {j \in 1..Len(alerts) : alerts[j].id = id}}
    /\ RunEffect([Deps EXCEPT !.alerts = SelectSeq(alerts, LAMBDA a : a.id # id)], limit)
    /\ UNCHANGED tick
    /\ UNCHANGED <<now, faceDetectionModel, recentHeadPositions, framesSinceFaceDetected,
                   analyzer, audioStream, liveStreams, recentNoiseLevel, videoRef,
                   loadModel, isDetecting, isModelLoaded, results, audioResults,
                   detectionStatus, statusMessage, audioEnabled, noiseDetected,
                   pendingInit>>

\* Time passes: Date.now() reads t from now on.
Advance(t) ==
    /\ t > now
    /\ now' = t
    /\ UNCHANGED <<faceDetectionModel, recentHeadPositions, framesSinceFaceDetected,
                   analyzer, audioStream, liveStreams, recentNoiseLevel, videoRef,
                   loadModel, isDetecting, isModelLoaded, results, audioResults,
                   detectionStatus, statusMessage, audioEnabled, noiseDetected, alerts,
                   effectDeps, inflight, raf, pendingInit, tick, ticks, dismissed>>

(***************************************************************************)
(* The detection loop: inputs and specification                            *)
(***************************************************************************)
FaceA == Box(100, 100, 200, 200)
FaceB == Box(140, 100, 240, 200)

LoopOutcomes ==
    {[throws |-> FALSE, faces |-> f] : f \in {<<>>, <<FaceA>>, <<FaceA, FaceB>>}}
    \cup {[throws |-> TRUE, faces |-> <<>>]}

LoopVolumes == {0}

LoopInstants == {k * ALERT_COOLDOWN : k \in 0..MaxClock} \cup {ALERT_COOLDOWN - 1}

Next ==
    \/ \E ok \in BOOLEAN : LoadModelSettles(ok)
    \/ handleVideoElement
    \/ toggleDetectionStart(MaxTicks)
    \/ toggleDetectionStop(MaxTicks)
    \/ toggleAudioOff(MaxTicks)
    \/ toggleAudioOn(MaxPendingInit)
    \/ \E granted \in BOOLEAN : InitializeAudioSettles(granted)
    \/ FlushEffect(MaxTicks)
    \/ \E i \in 1..MaxInFlight : AnimationFrame(i, MaxTicks)
    \/ \E i \in 1..MaxInFlight, outcome \in LoopOutcomes, b \in LoopVolumes :
          DetectorSettles(i, outcome, b)
    \/ \E id \in LoopInstants : dismissAlert(id, MaxTicks)
    \/ \E t \in LoopInstants : Advance(t)

Spec == Init /\ [][Next]_vars

TypeOK ==
    /\ Len(inflight) <= MaxInFlight
    /\ Len(alerts) <= MaxAlerts
    /\ framesSinceFaceDetected \in 0..MaxFrames


(***************************************************************************)
(* The tracker alone: consecutive ticks of one detection chain, without    *)
(* the component (processVideoFrame, then getDetectionStatus on its        *)
(* result, as lines 107 and 143-147 of detectFrame do).                    *)
(***************************************************************************)
InitTracker ==
    /\ now = 0
    /\ faceDetectionModel = TRUE
    /\ recentHeadPositions = <<>>
    /\ framesSinceFaceDetected = 0
    /\ analyzer = FALSE
    /\ audioStream = FALSE
    /\ liveStreams = 0
    /\ recentNoiseLevel = <<>>
    /\ videoRef = TRUE
    /\ loadModel = "loaded"
    /\ isDetecting = FALSE
    /\ isModelLoaded = TRUE
    /\ results = [faceCount |-> 0, facePresent |-> FALSE, lookingAway |-> FALSE,
                  estimatedAttention |-> 100, predictions |-> "null"]
    /\ audioResults = NoAudioResult
    /\ detectionStatus = "safe"
    /\ statusMessage = MsgStarting
    /\ audioEnabled = FALSE
    /\ noiseDetected = FALSE
    /\ alerts = <<>>
    /\ effectDeps = Deps
    /\ inflight = <<>>
    /\ raf = <<>>
    /\ pendingInit = 0
    /\ tick = NoTick
    /\ ticks = 0
    /\ dismissed = {}

\* processVideoFrame and getDetectionStatus for one frame; the caller says
\* what becomes of ticks.
ProcessFrame(outcome) ==
    /\ LET video == processVideoFrame(videoRef, outcome, now)
           videoStatus == getDetectionStatus(video.result.facePresent,
                               video.result.faceCount, video.result.lookingAway,
                               video.frames)
       IN  /\ video.frames <= MaxFrames
           /\ recentHeadPositions' = video.positions
           /\ framesSinceFaceDetected' = video.frames
           /\ results' = video.result
           /\ tick' = [NoTick EXCEPT
                          !.op = "processVideoFrame",
                          !.video = videoStatus,
                          !.published = videoStatus,
                          !.recorded = video.positions # recentHeadPositions,
                          !.run = AbsenceRun(outcome),
                          !.threw = outcome.throws,
                          !.face = PrimaryFace(outcome),
                          !.movements = video.movements]
    /\ UNCHANGED <<now, faceDetectionModel, analyzer, audioStream, liveStreams,
                   recentNoiseLevel, videoRef, loadModel, isDetecting, isModelLoaded,
                   audioResults, detectionStatus, statusMessage, audioEnabled,
                   noiseDetected, alerts, effectDeps, inflight, raf, pendingInit,
                   dismissed>>

\* VideoTick that empties the window on a frame without a face.
VideoTick_ForgetsOnAbsence(outcome) ==
    /\ LET video == processVideoFrame(videoRef, outcome, now)
           videoStatus == getDetectionStatus(video.result.facePresent,
                               video.result.faceCount, video.result.lookingAway,
                               video.frames)
       IN  /\ video.frames <= MaxFrames
           /\ recentHeadPositions' = IF video.result.facePresent
                                     THEN video.positions ELSE <<>>
           /\ framesSinceFaceDetected' = video.frames
           /\ results' = video.result
           /\ tick' = [NoTick EXCEPT
                          !.op = "processVideoFrame",
                          !.video = videoStatus,
                          !.published = videoStatus,
                          !.recorded = video.positions # recentHeadPositions,
                          !.run = AbsenceRun(outcome),
                          !.threw = outcome.throws,
                          !.face = PrimaryFace(outcome),
                          !.movements = video.movements]
    /\ UNCHANGED <<now, faceDetectionModel, analyzer, audioStream, liveStreams,
                   recentNoiseLevel, videoRef, loadModel, isDetecting, isModelLoaded,
                   audioResults, detectionStatus, statusMessage, audioEnabled,
                   noiseDetected, alerts, effectDeps, inflight, raf, pendingInit,
                   ticks, dismissed>>

VideoTick(outcome) == ProcessFrame(outcome) /\ UNCHANGED ticks

TrackOutcomes ==
    {[throws |-> FALSE, faces |-> f] :
        f \in {<<>>, <<FaceA>>, <<FaceB>>, <<FaceA, FaceB>>}}
    \cup {[throws |-> TRUE, faces |-> <<>>]}

TrackInstants ==
    {k * (POSITION_TRACKING_INTERVAL + 1) : k \in 0..MaxTrackSteps}
    \cup {POSITION_TRACKING_INTERVAL}

NextTracker ==
    \/ \E outcome \in TrackOutcomes : VideoTick(outcome)
    \/ \E t \in TrackInstants : Advance(t)

SpecTracker == InitTracker /\ [][NextTracker]_vars

\* C2: in a run of ticks without a face that starts right after a tick with a
\* face, the status is the warning "Face temporarily not visible" on the 1st
\* and 2nd tick, the danger "No face detected in frame" from the 3rd tick on,
\* and no longer danger on the tick on which exactly one face is back.
C2_AbsenceRun ==
    tick.op = "processVideoFrame" =>
      /\ tick.run \in {1, 2} =>
            tick.video = [status |-> "warning", message |-> "Face temporarily not visible"]
      /\ tick.run >= 3 =>
            tick.video = [status |-> "danger", message |-> "No face detected in frame"]
      /\ tick.run = 0 /\ results.faceCount = 1 => tick.video.status # "danger"

\* The third tick of a run of absences has been reached, with the danger status.
C2_Witness ==
    /\ tick.op = "processVideoFrame"
    /\ tick.run = 3
    /\ tick.video.status = "danger"

\* C8 as stated: estimatedAttention is in [0,100] and is 0 exactly when no
\* face is present.
C8_ZeroIffNoFace ==
    tick.op = "processVideoFrame" =>
      /\ results.estimatedAttention \in 0..100
      /\ (results.estimatedAttention = 0) <=> ~results.facePresent

\* C8 amended: estimatedAttention is in [0,100]; it is 0 whenever no face is
\* present; with a face present it is 0 only on a tick that recorded a sample
\* and whose window holds at least 5 significant movements.
C8_AttentionRange ==
    tick.op = "processVideoFrame" =>
      /\ results.estimatedAttention \in 0..100
      /\ ~results.facePresent => results.estimatedAttention = 0
      /\ results.facePresent /\ results.estimatedAttention = 0 =>
            tick.recorded /\ SignificantMovements(recentHeadPositions) >= 5

\* A face is present and the attention is 0.
C8_Witness ==
    /\ tick.op = "processVideoFrame"
    /\ results.facePresent
    /\ results.estimatedAttention = 0

\* C11: after every call of processVideoFrame the counter
\* framesSinceFaceDetected is 0 when the returned facePresent is true and
\* otherwise exactly one more than before the call, the calls that return the
\* default result included; it is never negative.  (Under SpecTracker every
\* step that leaves the clock alone is one call of processVideoFrame.)
C11_CounterUpdate ==
    [][now' = now =>
          /\ results'.facePresent => framesSinceFaceDetected' = 0
          /\ ~results'.facePresent =>
                framesSinceFaceDetected' = framesSinceFaceDetected + 1
          /\ framesSinceFaceDetected' >= 0]_vars


(***************************************************************************)
(* The analyzer alone: consecutive calls of processAudio with the analyzer *)
(* connected, as lines 116-119 of detectFrame make them.                   *)
(***************************************************************************)
\* Monitoring with audio: model loaded, camera delivering, microphone granted.
InitSampling ==
    /\ now = 0
    /\ faceDetectionModel = TRUE
    /\ recentHeadPositions = <<>>
    /\ framesSinceFaceDetected = 0
    /\ analyzer = TRUE
    /\ audioStream = TRUE
    /\ liveStreams = 1
    /\ recentNoiseLevel = <<>>
    /\ videoRef = TRUE
    /\ loadModel = "loaded"
    /\ isDetecting = TRUE
    /\ isModelLoaded = TRUE
    /\ results = [faceCount |-> 0, facePresent |-> FALSE, lookingAway |-> FALSE,
                  estimatedAttention |-> 100, predictions |-> "null"]
    /\ audioResults = NoAudioResult
    /\ detectionStatus = "safe"
    /\ statusMessage = MsgStarting
    /\ audioEnabled = TRUE
    /\ noiseDetected = FALSE
    /\ alerts = <<>>
    /\ effectDeps = Deps
    /\ inflight = <<>>
    /\ raf = <<>>
    /\ pendingInit = 0
    /\ tick = NoTick
    /\ ticks = 0
    /\ dismissed = {}

\* processAudio() for a snapshot of byte average b, and the two setters.
AudioTick(b) ==
    /\ LET audio == processAudio(b)
       IN  /\ recentNoiseLevel' = audio.levels
           /\ audioResults' = audio.result
           /\ noiseDetected' = audio.result.noiseDetected
           /\ tick' = [NoTick EXCEPT
                          !.op = "processAudio",
                          !.audioEnabled = TRUE,
                          !.audioActive = audioEnabled,
                          !.audioNoise = audio.result.noiseDetected,
                          !.resumed = (tick.op = "initializeAudio")]
    /\ UNCHANGED <<now, faceDetectionModel, recentHeadPositions, framesSinceFaceDetected,
                   analyzer, audioStream, liveStreams, videoRef, loadModel, isDetecting,
                   isModelLoaded, results, detectionStatus, statusMessage, audioEnabled,
                   alerts, effectDeps, inflight, raf, pendingInit, ticks, dismissed>>

\* Byte averages: silence, 13 (0.051) and 26 (0.102) on either side of the
\* volume floor of 0.1, and full volume.
AudioVolumes == {0, 13, 26, 255}

NextAudio ==
    \E b \in AudioVolumes :
        /\ Len(recentNoiseLevel) < MaxAudioSamples
        /\ AudioTick(b)

SpecAudio == InitSampling /\ [][NextAudio]_vars

\* n^2 * 255^2 times the sum of the squared deviations of the normalised
\* samples from their mean: the sum of (n * b - S)^2 over the window.
RECURSIVE C13_SquaredDeviations(_, _, _)
C13_SquaredDeviations(w, n, S) ==
    IF w = <<>> THEN 0
    ELSE (n * Head(w) - S) * (n * Head(w) - S) + C13_SquaredDeviations(Tail(w), n, S)

\* C13: processAudio classifies from the window after the append of the
\* current volume: with more than 5 samples noiseLevel is the population
\* variance of the window (the mean of the squared deviations from the mean)
\* and noiseDetected is true exactly when that variance > 0.2 and the current
\* volume > 0.1; with 5 or fewer samples noiseDetected is false and noiseLevel
\* is 0; six equal quiet samples give noiseDetected = false.
\* (variance = D / (255^2 n^3) for D the squared deviations above, so
\* variance > 1/5 is D > 13005 n^3; volume > 1/10 is 10 b > 255.)
C13_Classification ==
    tick.op = "processAudio" =>
      LET w == recentNoiseLevel
          n == Len(w)
          b == w[n]
          D == C13_SquaredDeviations(w, n, SumSeq(w))
      IN  /\ audioResults.volumeLevel = b
          /\ n > 5 =>
                /\ audioResults.noiseLevel.den = 255 * 255 * n * n
                /\ audioResults.noiseLevel.num * n = D
                /\ audioResults.noiseDetected <=> (D > 13005 * n * n * n /\ 10 * b > 255)
          /\ n <= 5 =>
                /\ ~audioResults.noiseDetected
                /\ audioResults.noiseLevel.num = 0
          /\ (n = 6 /\ \A i \in 1..n : w[i] = 13) => ~audioResults.noiseDetected

\* A window of more than 5 samples has been classified as noise.
C13_Witness ==
    /\ tick.op = "processAudio"
    /\ Len(recentNoiseLevel) > 5
    /\ audioResults.noiseDetected


(***************************************************************************)
(* The two sliding windows: a face in view at every instant of the clock,  *)
(* which moves on by 301 ms once the sample of the instant is recorded,    *)
(* and a microphone whose level rises by one with every snapshot, so that  *)
(* every sample of either window is told from every other.                 *)
(***************************************************************************)
WindowOutcomes ==
    {[throws |-> FALSE, faces |-> f] : f \in {<<>>, <<FaceA>>}}
    \cup {[throws |-> TRUE, faces |-> <<>>]}

WindowVolumes == 1..MaxWindowSamples

WindowInstants == {k * (POSITION_TRACKING_INTERVAL + 1) : k \in 0..MaxWindowSteps}

NextWindows ==
    \/ \E outcome \in WindowOutcomes : VideoTick(outcome)
    \/ \E b \in WindowVolumes :
          /\ b = IF recentNoiseLevel = <<>> THEN 1
                 ELSE recentNoiseLevel[Len(recentNoiseLevel)] + 1
          /\ AudioTick(b)
    \/ \E t \in WindowInstants :
          /\ t = now + POSITION_TRACKING_INTERVAL + 1
          /\ recentHeadPositions # <<>>
          /\ recentHeadPositions[Len(recentHeadPositions)].timestamp = now
          /\ Advance(t)

SpecWindows == InitSampling /\ [][NextWindows]_vars

\* C12: recentHeadPositions never holds more than 15 samples and
\* recentNoiseLevel never more than 20; a step that appends to a window that
\* is not full adds the sample at the end, and a step that appends to a full
\* window removes exactly the oldest element, so that the window holds the
\* most recent samples in the order of their appends.
C12_WindowsAreFifo ==
    /\ [](Len(recentHeadPositions) <= 15 /\ Len(recentNoiseLevel) <= 20)
    /\ [][/\ recentHeadPositions' # recentHeadPositions =>
               LET sample == recentHeadPositions'[Len(recentHeadPositions')]
               IN  recentHeadPositions' =
                      IF Len(recentHeadPositions) < 15
                      THEN Append(recentHeadPositions, sample)
                      ELSE Append(Tail(recentHeadPositions), sample)
          /\ tick'.op = "processAudio" /\ now' = now =>
               LET sample == recentNoiseLevel'[Len(recentNoiseLevel')]
               IN  recentNoiseLevel' =
                      IF Len(recentNoiseLevel) < 20
                      THEN Append(recentNoiseLevel, sample)
                      ELSE Append(Tail(recentNoiseLevel), sample)]_vars

\* Both windows are full and have lost their oldest samples.
C12_Witness ==
    /\ Len(recentHeadPositions) = 15
    /\ recentHeadPositions[1].timestamp > 0
    /\ Len(recentNoiseLevel) = 20
    /\ recentNoiseLevel[1] > 1


(***************************************************************************)
(* The detection loop with sound: the microphone delivers silence or full  *)
(* volume, one face is in view, monitoring is not stopped and the clock    *)
(* stands still.                                                           *)
(***************************************************************************)
NoiseOutcomes == {[throws |-> FALSE, faces |-> <<FaceA>>]}

NoiseVolumes == {0, 255}

NextNoise ==
    \/ LoadModelSettles(TRUE)
    \/ handleVideoElement
    \/ toggleDetectionStart(MaxNoiseTicks)
    \/ toggleAudioOff(MaxNoiseTicks)
    \/ toggleAudioOn(MaxPendingInit)
    \/ \E granted \in BOOLEAN : InitializeAudioSettles(granted)
    \/ FlushEffect(MaxNoiseTicks)
    \/ \E i \in 1..MaxInFlight : AnimationFrame(i, MaxNoiseTicks)
    \/ \E i \in 1..MaxInFlight, outcome \in NoiseOutcomes, b \in NoiseVolumes :
          DetectorSettles(i, outcome, b)

SpecNoise == Init /\ [][NextNoise]_vars

\* C9: on a tick with audio monitoring active whose audio result has
\* noiseDetected and whose video rules give safe, the published status is the
\* warning "Suspicious audio detected".
C9_AudioOverlay ==
    tick.op = "detectFrame" /\ tick.audioActive /\ tick.audioNoise
        /\ tick.video.status = "safe"
    => tick.published = [status |-> "warning", message |-> "Suspicious audio detected"]

\* C10: audio only raises safe to warning: a video warning or danger is
\* published unchanged, danger is published only when the video rules give
\* danger, and with audio monitoring inactive the published status is the
\* video-derived one.
C10_AudioOnlyRaisesSafe ==
    tick.op = "detectFrame" =>
      /\ tick.video.status \in {"warning", "danger"} => tick.published = tick.video
      /\ tick.published.status = "danger" => tick.video.status = "danger"
      /\ ~tick.audioActive => tick.published.status = tick.video.status


(***************************************************************************)
(* The tick driver with the clock crossing the cooldown: two faces, no     *)
(* face or a failing detector on each tick; first without audio            *)
(* monitoring, then with a silent microphone that is granted when asked    *)
(* for.                                                                    *)
(***************************************************************************)
DriverOutcomes ==
    {[throws |-> FALSE, faces |-> f] : f \in {<<>>, <<FaceA, FaceB>>}}
    \cup {[throws |-> TRUE, faces |-> <<>>]}

DriverInstants == {k * ALERT_COOLDOWN : k \in 0..MaxDriverClock}

NextDriver ==
    \/ LoadModelSettles(TRUE)
    \/ handleVideoElement
    \/ toggleDetectionStart(MaxDriverTicks)
    \/ toggleDetectionStop(MaxDriverTicks)
    \/ FlushEffect(MaxDriverTicks)
    \/ \E i \in 1..MaxInFlight : AnimationFrame(i, MaxDriverTicks)
    \/ \E i \in 1..MaxInFlight, outcome \in DriverOutcomes, b \in LoopVolumes :
          DetectorSettles(i, outcome, b)
    \/ \E id \in DriverInstants : dismissAlert(id, MaxDriverTicks)
    \/ \E t \in DriverInstants : Advance(t)

SpecDriver == Init /\ [][NextDriver]_vars

NextDriverAudio ==
    \/ NextDriver
    \/ toggleAudioOff(MaxDriverTicks)
    \/ toggleAudioOn(MaxPendingInit)
    \/ InitializeAudioSettles(TRUE)

SpecDriverAudio == Init /\ [][NextDriverAudio]_vars

\* C14: the alert log is ordered most-recent-first: for positions i < j the
\* timestamp at i is greater than or equal to the timestamp at j, and a step
\* that adds alerts inserts them at the front, above the log as it was.
C14_MostRecentFirst ==
    /\ [](\A i, j \in 1..Len(alerts) :
             i < j => alerts[i].timestamp >= alerts[j].timestamp)
    /\ [][Len(alerts') > Len(alerts) =>
             SubSeq(alerts', Len(alerts') - Len(alerts) + 1, Len(alerts')) = alerts]_vars

\* After emissions and a dismissal the log holds a newer alert above an older one.
C14_Witness ==
    /\ Len(alerts) >= 2
    /\ alerts[1].timestamp > alerts[2].timestamp
    /\ dismissed # {}

\* C15: the alert log shrinks only by explicit dismissal and its entries
\* never change: every step either keeps the whole log as it was below the
\* alerts it adds, or removes exactly the alerts of one id and is neither a
\* tick, nor an audio toggle, nor a start or stop of monitoring.
C15_ShrinksOnlyByDismissal ==
    [][\/ /\ Len(alerts') >= Len(alerts)
          /\ SubSeq(alerts', Len(alerts') - Len(alerts) + 1, Len(alerts')) = alerts
       \/ /\ \E id \in {alerts[i].id : i \in 1..Len(alerts)} :
                alerts' = SelectSeq(alerts, LAMBDA a : a.id # id)
          /\ Len(inflight') >= Len(inflight)
          /\ isDetecting' = isDetecting
          /\ audioEnabled' = audioEnabled
          /\ pendingInit' = pendingInit]_vars

\* Audio monitoring was turned on and monitoring has then been stopped after
\* a tick (the stream is released), and the log still holds an alert whose
\* cooldown has expired.
C15_Witness ==
    /\ tick.op = "detectFrame"
    /\ ~isDetecting
    /\ ~audioEnabled /\ liveStreams = 0 /\ tick.audioActive
    /\ Len(alerts) > 0
    /\ now - alerts[Len(alerts)].timestamp >= ALERT_COOLDOWN

\* C16: on a tick whose published status is warning or danger with message
\* M, when the log holds no alert with message M whose timestamp is less
\* than 10000 ms before now, exactly one new alert with message M is added,
\* with the type of the status.
C16_EmitsWhenNoRecentAlert ==
    [][/\ Len(inflight') < Len(inflight)
       /\ tick'.published.status \in {"warning", "danger"}
       /\ ~\E i \in 1..Len(alerts) :
              /\ alerts[i].message = tick'.published.message
              /\ now - alerts[i].timestamp < 10000
       => LET added == SubSeq(alerts', 1, Len(alerts') - Len(alerts))
              same == {i \in 1..Len(added) :
                          added[i].message = tick'.published.message}
          IN  /\ Cardinality(same) = 1
              /\ \A i \in same : /\ added[i].type = tick'.published.status
                                  /\ added[i].timestamp = now]_vars

\* C19: a detector failure does not stop the driver: on a tick whose
\* detector throws, processVideoFrame returns the default result (faceCount
\* 0, facePresent false, lookingAway false, estimatedAttention 0, no
\* predictions), the tick completes, and the next tick is scheduled.
C19_DetectorFailureRecovered ==
    [][Len(inflight') < Len(inflight) /\ tick'.threw =>
          /\ results' = [faceCount |-> 0, facePresent |-> FALSE,
                         lookingAway |-> FALSE, estimatedAttention |-> 0,
                         predictions |-> "null"]
          /\ tick'.op = "detectFrame"
          /\ isDetecting' = isDetecting
          /\ Len(raf') = Len(raf) + 1
          /\ raf'[Len(raf')].current]_vars

\* The detector threw on the last tick, monitoring is on and the next tick
\* has started.
C19_Witness ==
    /\ tick.op = "detectFrame"
    /\ tick.threw
    /\ isDetecting
    /\ raf = <<>>
    /\ Len(inflight) = 1
    /\ ticks >= 2


(***************************************************************************)
(* The alert log and the tick driver                                       *)
(***************************************************************************)
\* C3: the log never holds two alerts with the same message whose timestamps
\* are less than 10000 ms apart.
C3_NoDuplicateWithinCooldown ==
    \A i, j \in 1..Len(alerts) :
        i < j /\ alerts[i].message = alerts[j].message
        => alerts[i].timestamp - alerts[j].timestamp >= 10000

\* C4: dismissing an alert does not end its cooldown: no step adds an alert
\* whose message is that of a dismissed alert emitted less than 10000 ms ago.
C4_DismissedStillSuppresses ==
    [][\A i \in 1..(Len(alerts') - Len(alerts)) :
          ~\E d \in dismissed :
              /\ d.message = alerts'[i].message
              /\ alerts'[i].timestamp - d.timestamp < 10000]_vars

\* C5: once monitoring is stopped the tick driver halts: while isDetecting
\* stays false no step calls processVideoFrame and no step schedules an
\* animation-frame callback.
C5_StopHaltsDriver ==
    [][~isDetecting /\ ~isDetecting' => ticks' = ticks /\ Len(raf') <= Len(raf)]_vars

\* C6: ticks never overlap: at most one detectFrame is between its start and
\* its scheduling of the next frame.
C6_TicksNeverOverlap == Len(inflight) <= 1

\* C7: the alerts of the log have pairwise different ids.
C7_UniqueIds ==
    \A i, j \in 1..Len(alerts) : i # j => alerts[i].id # alerts[j].id

\* C17: once monitoring is stopped and every pending asynchronous call has
\* settled, no microphone stream acquired by initializeAudio is live and
\* audioEnabled is false.
C17_StopReleasesAudio ==
    ~isDetecting /\ pendingInit = 0 /\ inflight = <<>> /\ Deps = effectDeps
    => liveStreams = 0 /\ ~audioEnabled

\* C18: a tick that resolves after monitoring was stopped leaves
\* recentHeadPositions, framesSinceFaceDetected, recentNoiseLevel and the
\* alert log unchanged.
C18_CancelledTickDiscarded ==
    [][~isDetecting /\ Len(inflight') < Len(inflight) =>
          /\ recentHeadPositions' = recentHeadPositions
          /\ framesSinceFaceDetected' = framesSinceFaceDetected
          /\ recentNoiseLevel' = recentNoiseLevel
          /\ alerts' = alerts]_vars

\* C20: when the microphone request fails, audioEnabled stays false and no
\* stream is acquired, the tick driver is left as it was, and on the later
\* ticks, while audio stays off, processAudio is not called and the published
\* status is the video-derived one.
C20_AudioFailureDegrades ==
    [][/\ pendingInit' < pendingInit /\ tick'.initFailed =>
             /\ ~audioEnabled /\ ~audioEnabled'
             /\ liveStreams' = liveStreams
             /\ isDetecting' = isDetecting
             /\ inflight' = inflight /\ raf' = raf
       /\ Len(inflight') < Len(inflight) /\ tick.initFailed /\ ~audioEnabled =>
             /\ ~tick'.audioEnabled
             /\ recentNoiseLevel' = recentNoiseLevel
             /\ tick'.published = tick'.video
             /\ Len(raf') = Len(raf) + 1]_vars


(***************************************************************************)
(* Loading the detector: the model may fail to load; the buttons, the      *)
(* camera and the tick driver, without audio monitoring.                   *)
(***************************************************************************)
MaxLoadTicks == 3

LoadOutcomes ==
    {[throws |-> FALSE, faces |-> f] : f \in {<<>>, <<FaceA>>}}
    \cup {[throws |-> TRUE, faces |-> <<>>]}

NextLoad ==
    \/ \E ok \in BOOLEAN : LoadModelSettles(ok)
    \/ handleVideoElement
    \/ toggleDetectionNotLoaded
    \/ toggleDetectionStart(MaxLoadTicks)
    \/ toggleDetectionStop(MaxLoadTicks)
    \/ FlushEffect(MaxLoadTicks)
    \/ \E i \in 1..MaxInFlight : AnimationFrame(i, MaxLoadTicks)
    \/ \E i \in 1..MaxInFlight, outcome \in LoadOutcomes : DetectorSettles(i, outcome, 0)

SpecLoad == Init /\ [][NextLoad]_vars

\* C21: monitoring is never active without a loaded detector: isDetecting
\* implies isModelLoaded in every reachable state, and once
\* initializeDetection has failed isDetecting stays false whatever is
\* clicked, no tick has started, none is awaiting the detector and none is
\* scheduled.
C21_NoMonitoringWithoutModel ==
    /\ isDetecting => isModelLoaded /\ faceDetectionModel
    /\ loadModel = "failed" =>
          /\ ~isModelLoaded
          /\ ~isDetecting
          /\ ticks = 0
          /\ inflight = <<>>
          /\ raf = <<>>
          /\ tick.op \in {"none", "toggleDetection"}

\* The start button was clicked after the load had failed, with the camera
\* delivering.
C21_Witness ==
    /\ loadModel = "failed"
    /\ videoRef
    /\ tick.op = "toggleDetection"
    /\ ~isDetecting


(***************************************************************************)
(* The tracker alone (SpecTracker): position samples, the debounce and the *)
(* attention result                                                        *)
(***************************************************************************)
\* C22: the recorded head position is the midpoint of the bounding box of the
\* primary face: x = (topLeft.x + bottomRight.x) / 2 and
\* y = (topLeft.y + bottomRight.y) / 2, for every box.
C22_MidpointRecorded ==
    tick.op = "processVideoFrame" /\ tick.recorded =>
      LET sample == recentHeadPositions[Len(recentHeadPositions)]
          face == tick.face
      IN  /\ 2 * sample.x = face.topLeft[1] + face.bottomRight[1]
          /\ 2 * sample.y = face.topLeft[2] + face.bottomRight[2]

\* C23: between position samples the attention result is held: a tick with a
\* face present that records no sample returns the lookingAway and the
\* estimatedAttention of the most recent tick that recorded one.  (Stated on
\* two consecutive ticks with a face: the earlier one either recorded a
\* sample or, by the same rule, returned the values of the tick that did.)
C23_AttentionHeld ==
    [][/\ now' = now
       /\ tick.op = "processVideoFrame"
       /\ results.facePresent
       /\ results'.facePresent
       /\ recentHeadPositions' = recentHeadPositions
       => /\ results'.lookingAway = results.lookingAway
          /\ results'.estimatedAttention = results.estimatedAttention]_vars

\* C24: on a tick with a face present a sample is recorded exactly when the
\* window is empty or more than 300 ms have passed since the last recorded
\* sample (at exactly 300 ms nothing is recorded); the timestamps of the
\* window are strictly increasing, consecutive ones more than 300 ms apart.
C24_Debounce ==
    /\ [][now' = now /\ results'.facePresent =>
            ((recentHeadPositions' # recentHeadPositions)
             <=> \/ recentHeadPositions = <<>>
                 \/ now - recentHeadPositions[Len(recentHeadPositions)].timestamp > 300)]_vars
    /\ [](\A i \in 1..(Len(recentHeadPositions) - 1) :
             recentHeadPositions[i + 1].timestamp - recentHeadPositions[i].timestamp > 300)

\* A tick with a face, exactly 300 ms after the last sample, recorded nothing.
C24_Witness ==
    /\ tick.op = "processVideoFrame"
    /\ results.facePresent
    /\ ~tick.recorded
    /\ recentHeadPositions # <<>>
    /\ now - recentHeadPositions[Len(recentHeadPositions)].timestamp = 300

\* C26: on a tick with a face present that recorded a sample, lookingAway is
\* (significantMovements >= 3) and estimatedAttention is 100 for no movement
\* and max(0, 100 - 20 * significantMovements) otherwise; on a tick without a
\* face lookingAway is false and estimatedAttention is 0; so lookingAway
\* implies facePresent and estimatedAttention <= 40.
C26_AttentionResult ==
    tick.op = "processVideoFrame" =>
      /\ results.facePresent /\ tick.recorded =>
            /\ results.lookingAway = (tick.movements >= 3)
            /\ results.estimatedAttention =
                  IF tick.movements = 0 THEN 100
                  ELSE IF 100 - 20 * tick.movements > 0
                       THEN 100 - 20 * tick.movements ELSE 0
      /\ ~results.facePresent =>
            ~results.lookingAway /\ results.estimatedAttention = 0
      /\ results.lookingAway =>
            results.facePresent /\ results.estimatedAttention <= 40

\* A recorded sample brought the window to exactly 3 significant movements.
C26_Witness ==
    /\ tick.op = "processVideoFrame"
    /\ tick.recorded
    /\ tick.movements = 3
    /\ results.lookingAway
    /\ results.estimatedAttention = 40

\* C28: a tick on which no face is detected (zero predictions or a detector
\* exception; the detector and the video element are present on every tick
\* of the tracker) leaves recentHeadPositions as it was.
C28_AbsenceKeepsWindow ==
    [][now' = now /\ ~results'.facePresent =>
          recentHeadPositions' = recentHeadPositions]_vars

\* The second tick of a run of absences, with samples still in the window.
C28_Witness ==
    /\ tick.op = "processVideoFrame"
    /\ ~results.facePresent
    /\ tick.run = 2
    /\ Len(recentHeadPositions) >= 2

\* C30: on every tick whose result has facePresent = false the published
\* status is warning or danger, the ticks that returned the default result
\* included.
C30_AbsenceNeverSafe ==
    tick.op = "processVideoFrame" /\ ~results.facePresent =>
        tick.published.status \in {"warning", "danger"}


(***************************************************************************)
(* Movements at the threshold: one face sampled every 301 ms, at FaceA on  *)
(* the even samples and 25 px or 26 px from it on the odd ones, until the  *)
(* window is full and evicts.                                              *)
(***************************************************************************)
MaxMoveSteps == 16

\* Recorded positions: FaceA (150,150), FaceAt25 (150,175), FaceAt26 (150,176).
FaceAt25 == Box(100, 150, 200, 250)
FaceAt26 == Box(100, 152, 200, 252)

MoveOutcomes ==
    {[throws |-> FALSE, faces |-> <<f>>] : f \in {FaceA, FaceAt25, FaceAt26}}

MoveInstants == {k * (POSITION_TRACKING_INTERVAL + 1) : k \in 0..MaxMoveSteps}

NextMovement ==
    \/ \E outcome \in MoveOutcomes :
          /\ IF recentHeadPositions = <<>> THEN TRUE
             ELSE recentHeadPositions[Len(recentHeadPositions)].timestamp < now
          /\ (outcome.faces[1] = FaceA)
                <=> ((now \div (POSITION_TRACKING_INTERVAL + 1)) % 2 = 0)
          /\ VideoTick(outcome)
    \/ \E t \in MoveInstants :
          /\ recentHeadPositions # <<>>
          /\ recentHeadPositions[Len(recentHeadPositions)].timestamp = now
          /\ t = now + POSITION_TRACKING_INTERVAL + 1
          /\ Advance(t)

SpecMovement == InitTracker /\ [][NextMovement]_vars

\* The consecutive pairs of a window that lie more than 25 px apart.
C25_DistantPairs(w) ==
    {i \in 1..(Len(w) - 1) :
        (w[i + 1].x - w[i].x) * (w[i + 1].x - w[i].x)
          + (w[i + 1].y - w[i].y) * (w[i + 1].y - w[i].y) > 25 * 25}

\* C25: on a tick that records a sample, significantMovements is the number
\* of consecutive pairs of the retained window whose Euclidean distance is
\* strictly greater than 25 (a pair at exactly 25 is not counted), and it is
\* at most the window length - 1, so at most 14.
C25_SignificantMovements ==
    tick.op = "processVideoFrame" /\ tick.recorded =>
      /\ tick.movements = Cardinality(C25_DistantPairs(recentHeadPositions))
      /\ tick.movements <= Len(recentHeadPositions) - 1
      /\ tick.movements <= 14

\* The window is full, the recorded sample is exactly 25 px from the one
\* before it, and the 13 other pairs of the window are counted.
C25_Witness ==
    /\ tick.op = "processVideoFrame"
    /\ tick.recorded
    /\ tick.movements = 13
    /\ LET n == Len(recentHeadPositions)
       IN  /\ n = MAX_HEAD_POSITIONS
           /\ recentHeadPositions[n].x = recentHeadPositions[n - 1].x
           /\ recentHeadPositions[n].y - recentHeadPositions[n - 1].y \in {25, -25}


(***************************************************************************)
(* An oscillating face: frames at a fixed period from t = 0, one face on   *)
(* each, at FaceA on the 1st, 3rd, ... frame and 40 px from it on the      *)
(* others; ticks counts the frames processed.                              *)
(***************************************************************************)
MaxOscillationTicks == 6

\* FaceA moved by 40 px to the right and by 40 px down.
FaceRight40 == Box(140, 100, 240, 200)
FaceDown40 == Box(100, 140, 200, 240)

OscillationPeriods == {300, 301, 302, 600}

\* The next frame of the oscillation with period p.
OscillationTick(p, face) ==
    /\ ticks < MaxOscillationTicks
    /\ now = ticks * p
    /\ (face = FaceA) <=> (ticks % 2 = 0)
    /\ ProcessFrame([throws |-> FALSE, faces |-> <<face>>])
    /\ ticks' = ticks + 1

\* The period p passes after the last frame.
OscillationWait(p) ==
    /\ ticks \in 1..(MaxOscillationTicks - 1)
    /\ now = (ticks - 1) * p
    /\ Advance(ticks * p)

NextOscillation ==
    \/ \E p \in OscillationPeriods, face \in {FaceA, FaceRight40, FaceDown40} :
          OscillationTick(p, face)
    \/ \E p \in OscillationPeriods : OscillationWait(p)

SpecOscillation == InitTracker /\ [][NextOscillation]_vars

\* C27: from an empty window, four ticks 300 ms apart with one face whose
\* centroid alternates by 40 px give, on the fourth tick, at least 3
\* significant movements, lookingAway = true and estimatedAttention = 40.
\* (Under SpecOscillation the fourth frame of the period 300 ms is the one
\* processed at t = 900.)
C27_OscillationFlagged ==
    tick.op = "processVideoFrame" /\ ticks = 4 /\ now = 3 * 300 =>
        /\ tick.movements >= 3
        /\ results.lookingAway
        /\ results.estimatedAttention = 40


(***************************************************************************)
(* The audio module across a stop: processAudio, stopAudio and a granted   *)
(* initializeAudio called one after the other.                             *)
(***************************************************************************)
MaxCycleSamples == 7

\* stopAudio() on its own.
StopAudioCall ==
    /\ analyzer
    /\ audioStream' = stopAudio.audioStream
    /\ liveStreams' = stopAudio.liveStreams
    /\ analyzer' = stopAudio.analyzer
    /\ tick' = [NoTick EXCEPT !.op = "stopAudio"]
    /\ UNCHANGED <<now, faceDetectionModel, recentHeadPositions, framesSinceFaceDetected,
                   recentNoiseLevel, videoRef, loadModel, isDetecting, isModelLoaded,
                   results, audioResults, detectionStatus, statusMessage, audioEnabled,
                   noiseDetected, alerts, effectDeps, inflight, raf, pendingInit, ticks,
                   dismissed>>

\* initializeAudio() with the microphone granted, from the call to its return.
InitializeAudioCall ==
    /\ ~analyzer
    /\ audioStream' = TRUE
    /\ liveStreams' = liveStreams + 1
    /\ analyzer' = TRUE
    /\ tick' = [NoTick EXCEPT !.op = "initializeAudio"]
    /\ UNCHANGED <<now, faceDetectionModel, recentHeadPositions, framesSinceFaceDetected,
                   recentNoiseLevel, videoRef, loadModel, isDetecting, isModelLoaded,
                   results, audioResults, detectionStatus, statusMessage, audioEnabled,
                   noiseDetected, alerts, effectDeps, inflight, raf, pendingInit, ticks,
                   dismissed>>

CycleVolumes == {0, 255}

NextAudioCycle ==
    \/ \E b \in CycleVolumes :
          /\ Len(recentNoiseLevel) < MaxCycleSamples
          /\ AudioTick(b)
    \/ StopAudioCall
    \/ InitializeAudioCall

SpecAudioCycle == InitSampling /\ [][NextAudioCycle]_vars

\* C29: stopAudio releases the stream and the analyzer and leaves
\* recentNoiseLevel as it is; processAudio while stopped returns
\* noiseDetected = false, noiseLevel = 0, volumeLevel = 0 and leaves the
\* window as it is; the first processAudio after a later successful
\* initializeAudio appends to the retained samples and computes its variance
\* over the old samples and the new one (the fraction num/den with
\* den = 255^2 n^2 and num * n = D, for D the squared deviations of C13).
C29_WindowSurvivesStop ==
    [][/\ tick'.op = "stopAudio" =>
            /\ ~analyzer' /\ ~audioStream' /\ liveStreams' = 0
            /\ recentNoiseLevel' = recentNoiseLevel
       /\ tick'.op = "processAudio" /\ ~analyzer =>
            /\ recentNoiseLevel' = recentNoiseLevel
            /\ ~audioResults'.noiseDetected
            /\ audioResults'.noiseLevel.num = 0
            /\ audioResults'.volumeLevel = 0
       /\ tick'.op = "processAudio" /\ tick.op = "initializeAudio" =>
            LET w == recentNoiseLevel'
                n == Len(w)
                D == C13_SquaredDeviations(w, n, SumSeq(w))
                v == audioResults'.noiseLevel
            IN  /\ SubSeq(w, 1, n - 1) = recentNoiseLevel
                /\ w[n] = audioResults'.volumeLevel
                /\ n > 5 => /\ v.den = 255 * 255 * n * n
                            /\ v.num * n = D
                            /\ audioResults'.noiseDetected
                                 <=> (D > 13005 * n * n * n /\ 10 * w[n] > 255)]_vars

\* The first processAudio after a stop and a new initializeAudio found five
\* retained samples and reported noise from the six.
C29_Witness ==
    /\ tick.op = "processAudio"
    /\ tick.resumed
    /\ Len(recentNoiseLevel) = 6
    /\ audioResults.noiseDetected


(***************************************************************************)
(* The microphone: the audio button clicked while earlier initializeAudio  *)
(* calls still await the permission; no camera, so no tick runs.           *)
(***************************************************************************)
MaxMicPending == 2
MaxMicStreams == 5

NextMicrophone ==
    \/ LoadModelSettles(TRUE)
    \/ toggleDetectionStart(MaxTicks)
    \/ toggleDetectionStop(MaxTicks)
    \/ toggleAudioOff(MaxTicks)
    \/ /\ liveStreams + pendingInit < MaxMicStreams
       /\ toggleAudioOn(MaxMicPending)
    \/ \E granted \in BOOLEAN : InitializeAudioSettles(granted)
    \/ FlushEffect(MaxTicks)

SpecMicrophone == Init /\ [][NextMicrophone]_vars

\* C31: at every moment at most one microphone stream obtained by
\* initializeAudio is live, and after stopAudio (the only step that sets the
\* analyzer to null) none is, whatever the interleaving of clicks on the
\* audio button with pending initializeAudio calls.
C31_OneLiveStream ==
    [][/\ liveStreams' <= 1
       /\ analyzer /\ ~analyzer' => liveStreams' = 0]_vars


(***************************************************************************)
(* The alerts of the log, with audio monitoring (SpecNoise)                *)
(***************************************************************************)
\* C32: every alert of the log has the type warning or danger and was
\* emitted on a tick whose published status was not safe; no alert carries
\* "Normal exam behavior"; an alert has the type danger exactly when its
\* message is "No face detected in frame" or "Multiple faces detected (N)";
\* the audio alert "Suspicious sounds detected" always has the type warning.
C32_AlertTypes ==
    /\ \A i \in 1..Len(alerts) :
          /\ alerts[i].type \in {"warning", "danger"}
          /\ alerts[i].message # "Normal exam behavior"
          /\ alerts[i].type = "danger"
                <=> \/ alerts[i].message = "No face detected in frame"
                    \/ \E n \in 2..MaxFaces : alerts[i].message = MsgMultiple(n)
          /\ alerts[i].message = "Suspicious sounds detected" =>
                alerts[i].type = "warning"
    /\ tick.op = "detectFrame" /\ tick.emitted > 0 =>
          tick.published.status # "safe"


(***************************************************************************)
(* Monitoring stopped and started again: after MaxRunTicks ticks the next  *)
(* tick is one that a click on the start button begins, so every tick      *)
(* beyond MaxRunTicks follows a restart.  No audio monitoring.             *)
(***************************************************************************)
MaxRunTicks == 2
MaxRestartTicks == 3

RestartOutcomes ==
    {[throws |-> FALSE, faces |-> f] : f \in {<<>>, <<FaceA>>, <<FaceB>>}}

RestartInstants == {POSITION_TRACKING_INTERVAL + 1}

NextRestart ==
    \/ LoadModelSettles(TRUE)
    \/ handleVideoElement
    \/ toggleDetectionStart(MaxRestartTicks)
    \/ toggleDetectionStop(MaxRestartTicks)
    \/ /\ ticks # MaxRunTicks
       /\ FlushEffect(MaxRestartTicks)
    \/ \E i \in 1..MaxInFlight :
          /\ ticks # MaxRunTicks
          /\ AnimationFrame(i, MaxRestartTicks)
    \/ \E i \in 1..MaxInFlight, outcome \in RestartOutcomes :
          DetectorSettles(i, outcome, 0)
    \/ \E t \in RestartInstants : Advance(t)

SpecRestart == Init /\ [][NextRestart]_vars

\* C33: stopping and restarting monitoring does not reset the tracker state:
\* a click on the button leaves framesSinceFaceDetected and
\* recentHeadPositions as they are, and every tick, the first one after a
\* restart included, counts the absence from the counter it finds
\* (warning "Face temporarily not visible" below 3, danger "No face detected
\* in frame" from 3 on) and appends its sample to the window it finds,
\* counting the movements of that window.
C33_TrackerSurvivesRestart ==
    [][/\ isDetecting' # isDetecting =>
            /\ framesSinceFaceDetected' = framesSinceFaceDetected
            /\ recentHeadPositions' = recentHeadPositions
       /\ Len(inflight') = Len(inflight) - 1 /\ ~results'.facePresent =>
            /\ framesSinceFaceDetected' = framesSinceFaceDetected + 1
            /\ recentHeadPositions' = recentHeadPositions
            /\ tick'.video =
                  IF framesSinceFaceDetected + 1 >= 3
                  THEN [status |-> "danger", message |-> "No face detected in frame"]
                  ELSE [status |-> "warning", message |-> "Face temporarily not visible"]
       /\ Len(inflight') = Len(inflight) - 1 /\ tick'.recorded =>
            LET n == Len(recentHeadPositions')
            IN  /\ SubSeq(recentHeadPositions', 1, n - 1) = recentHeadPositions
                /\ tick'.movements =
                      Cardinality(C25_DistantPairs(recentHeadPositions'))]_vars

\* The first tick after a restart published the danger status: the two
\* absences of the first run and its own.
C33_Witness ==
    /\ ticks = MaxRunTicks + 1
    /\ inflight = <<>>
    /\ isDetecting
    /\ tick.op = "detectFrame"
    /\ framesSinceFaceDetected = 3
    /\ tick.published = [status |-> "danger", message |-> "No face detected in frame"]

====
